---- MODULE Spec2Model ----
(***************************************************************************)
(* Model of sensors-mon (src/main.rs): the sliding-window telemetry store  *)
(* kept by App (App::new, App::on_tick), the poll/render loop of App::run  *)
(* and the y-axis bounds computed by App::render_temps_chart.              *)
(*                                                                         *)
(* Numbers.  The program's f64 temperatures and watts are modelled as      *)
(* fixed-point integers in thousandths (25.0 is 25000, 0.01 is 10, 2.0 is  *)
(* 2000); every operation the program applies to them (min, max, +, -,     *)
(* comparison) is exact on these values.  Tick indices are f64 holding     *)
(* small whole numbers and are modelled as integers.  Durations are in     *)
(* milliseconds.                                                           *)
(***************************************************************************)
EXTENDS Integers, Sequences, FiniteSets, TLC

VARIABLES
    tctl,          \* Vec<(f64, f64)>: (tick index, value) samples of the CPU CTL series
    tctl_mm,       \* (min, max) of tctl
    tccd1,         \* latest CCD reading
    tccd1_mm,      \* (min, max) of tccd1
    coolant1,      \* Vec<(f64, f64)>: samples of the coolant 1 series
    coolant1_mm,   \* (min, max) of coolant1
    coolant2,      \* latest coolant 2 reading
    coolant2_mm,   \* (min, max) of coolant2
    gpu_temp,      \* Vec<(f64, f64)>: samples of the GPU series
    gpu_temp_mm,   \* (min, max) of the GPU temperature
    gpu_w,         \* GPU power
    gpu_mem_used,  \* GPU memory used, MiB
    gpu_mem_max,   \* GPU memory total, MiB
    window,        \* [f64; 2]: the chart's x-axis bounds
    pc,            \* position of App::run: "draw", "poll", "check" or "done"
    elapsed,       \* last_tick.elapsed(), milliseconds
    result,        \* what App::run returned: "running" (not yet), "Ok" or "Err";
                   \* "panic" when App::new panicked
    drawn,         \* TRUE once a frame has been drawn
    y_bounds,      \* <<y_min, y_max>> of the last frame's chart
    gauges,        \* <<c1, c2>>: the values of the two coolant gauges of the last frame
    x_bounds,      \* the x-axis bounds of the last frame's chart
    table,         \* the rows (Curr, Min, Max) of the last frame's table, in tenths
    seen           \* history: the readings each metric has been given since App::new

vars == <<tctl, tctl_mm, tccd1, tccd1_mm, coolant1, coolant1_mm, coolant2,
          coolant2_mm, gpu_temp, gpu_temp_mm, gpu_w, gpu_mem_used, gpu_mem_max,
          window, pc, elapsed, result, drawn, y_bounds, gauges, x_bounds, table, seen>>

storeVars == <<tctl, tctl_mm, tccd1, tccd1_mm, coolant1, coolant1_mm, coolant2,
               coolant2_mm, gpu_temp, gpu_temp_mm, gpu_w, gpu_mem_used,
               gpu_mem_max, window, seen>>

frameVars == <<drawn, y_bounds, gauges, x_bounds, table>>

----------------------------------------------------------------------------
(* Bounds of the model *)

\* Number of samples a series retains in the model.  The program's value is
\* (5 * 60) / (INTERVAL / 1000) = 150; every operation on the series is
\* written for an arbitrary capacity, and the model runs it at this one.
MaxWindow == 3

\* on_tick is not taken any more once window[0] has reached this value.
MaxTicks == 5

----------------------------------------------------------------------------
(* Program constants *)

INTERVAL == 2000

WINDOW_SIZE == MaxWindow

BOUNDS_PADDING == 2000

BOUNDS_MIN == 25000

BOUNDS_MAX == 90000

\* The literal 0.01 of the two filters of render_temps_chart.
FILTER_MIN == 10

B_TO_MIB == 1024 * 1024

----------------------------------------------------------------------------
(* f64::min, f64::max on the fixed-point values *)

fmin(a, b) == IF a < b THEN a ELSE b

fmax(a, b) == IF a > b THEN a ELSE b

Last(s) == s[Len(s)]

----------------------------------------------------------------------------
(* The sensor libraries.  A value a library call may fail to give is <<>>   *)
(* (the call failed, or the chip / feature / device is absent) or <<v>>.    *)

\* What lm-sensors can report: temp1 and temp3 of the k10temp chip, temp1
\* and temp2 of the quadro-hid chip.
LmStates ==
    { [k10_temp1 |-> <<>>,      k10_temp3 |-> <<>>,
       quadro_temp1 |-> <<>>,   quadro_temp2 |-> <<>>],
      [k10_temp1 |-> <<40000>>, k10_temp3 |-> <<38000>>,
       quadro_temp1 |-> <<30000>>, quadro_temp2 |-> <<31000>>],
      [k10_temp1 |-> <<95000>>, k10_temp3 |-> <<93000>>,
       quadro_temp1 |-> <<36000>>, quadro_temp2 |-> <<>>] }

\* What NVML can report for device 0: <<>> when device_by_index fails, else
\* the temperature (degrees C, u32), the power (milliwatts) and the memory
\* (bytes used, bytes total), each of which may fail on its own.
NvmlStates ==
    { <<>>,
      <<[temperature |-> <<45>>, power_usage |-> <<120500>>,
         memory_info |-> <<[used |-> 3 * B_TO_MIB + 5, total |-> 12 * B_TO_MIB]>>]>>,
      <<[temperature |-> <<>>, power_usage |-> <<>>, memory_info |-> <<>>]>> }

OrZero(r) == IF r = <<>> THEN 0 ELSE r[1]

get_lmsensors_vals(sensors) ==
    [tctl     |-> OrZero(sensors.k10_temp1),
     tccd1    |-> OrZero(sensors.k10_temp3),
     coolant1 |-> OrZero(sensors.quadro_temp1),
     coolant2 |-> OrZero(sensors.quadro_temp2)]

get_nvml_values(nvml) ==
    IF nvml = <<>>
    THEN [temp |-> 0, watts |-> 0, mem_used |-> 0, mem_total |-> 0]
    ELSE LET device == nvml[1] IN
         [temp      |-> IF device.temperature = <<>> THEN 0
                        ELSE device.temperature[1] * 1000,
          watts     |-> OrZero(device.power_usage),
          mem_used  |-> IF device.memory_info = <<>> THEN 0
                        ELSE device.memory_info[1].used \div B_TO_MIB,
          mem_total |-> IF device.memory_info = <<>> THEN 0
                        ELSE device.memory_info[1].total \div B_TO_MIB]

----------------------------------------------------------------------------
(* App::new *)

\* Variant of NewSeries: the loop runs over 0..WINDOW_SIZE.
NewSeries_OneMore(first) ==
    Append([i \in 1..WINDOW_SIZE |-> <<i - 1, 0>>], <<WINDOW_SIZE, first>>)

\* The WINDOW_SIZE - 1 placeholder samples (i, 0.0), i = 0 .. WINDOW_SIZE - 2,
\* followed by the first reading at tick index WINDOW_SIZE - 1.
NewSeries(first) ==
    Append([i \in 1..(WINDOW_SIZE - 1) |-> <<i - 1, 0>>],
           <<WINDOW_SIZE - 1, first>>)

App_new(sensors, nvml) ==
    LET values      == get_lmsensors_vals(sensors)
        nvml_values == get_nvml_values(nvml)
    IN  /\ tctl = NewSeries(values.tctl)
        /\ coolant1 = NewSeries(values.coolant1)
        /\ gpu_temp = NewSeries(nvml_values.temp)
        /\ tctl_mm = <<values.tctl, values.tctl>>
        /\ tccd1 = values.tccd1
        /\ tccd1_mm = <<values.tccd1, values.tccd1>>
        /\ coolant1_mm = <<values.coolant1, values.coolant1>>
        /\ coolant2 = values.coolant2
        /\ coolant2_mm = <<values.coolant2, values.coolant2>>
        /\ gpu_temp_mm = <<nvml_values.temp, nvml_values.temp>>
        /\ gpu_w = nvml_values.watts
        /\ gpu_mem_used = nvml_values.mem_used
        /\ gpu_mem_max = nvml_values.mem_total
        /\ window = <<0, WINDOW_SIZE>>
        /\ seen = [tctl     |-> {values.tctl},
                   tccd1    |-> {values.tccd1},
                   coolant1 |-> {values.coolant1},
                   coolant2 |-> {values.coolant2},
                   gpu_temp |-> {nvml_values.temp}]

----------------------------------------------------------------------------
(* App::on_tick *)

\* Variant of AdvanceWindow: both increments land on window[0].
AdvanceWindow_StartTwice(win) == <<win[1] + 2, win[2]>>

\* self.window[0] += 1.0; self.window[1] += 1.0
AdvanceWindow(win) == <<win[1] + 1, win[2] + 1>>

\* Variant of Advance: the push without the remove(0).
Advance_NoEvict(series, w, v) == Append(series, <<w, v>>)

\* series.remove(0); series.push((w, v))
Advance(series, w, v) == Append(Tail(series), <<w, v>>)

\* Variant of UpdateMinMax: the maximum is never raised.
UpdateMinMax_MinOnly(mm, v) == <<IF v < mm[1] THEN v ELSE mm[1], mm[2]>>

\* Variant of UpdateMinMax: the maximum is compared with mm.0.
UpdateMinMax_MaxAgainstMin(mm, v) ==
    <<IF v < mm[1] THEN v ELSE mm[1], IF v > mm[1] THEN v ELSE mm[2]>>

\* Variant of UpdateMinMax: a reading below 0.01 is left out.
UpdateMinMax_SkipsSentinel(mm, v) ==
    IF v < FILTER_MIN THEN mm
    ELSE <<IF v < mm[1] THEN v ELSE mm[1], IF v > mm[2] THEN v ELSE mm[2]>>

\* if v < mm.0 { mm.0 = v }  if v > mm.1 { mm.1 = v }
UpdateMinMax(mm, v) ==
    <<IF v < mm[1] THEN v ELSE mm[1], IF v > mm[2] THEN v ELSE mm[2]>>

\* Variant of on_tick: the GPU series is pushed at the window end read before
\* the increment.
on_tick_GpuBehind(sensors, nvml) ==
    LET vals      == get_lmsensors_vals(sensors)
        nvml_vals == get_nvml_values(nvml)
        win       == AdvanceWindow(window)
        w         == win[2]
    IN  /\ window' = win
        /\ tctl' = Advance(tctl, w, vals.tctl)
        /\ coolant1' = Advance(coolant1, w, vals.coolant1)
        /\ gpu_temp' = Advance(gpu_temp, window[2], nvml_vals.temp)
        /\ tccd1' = vals.tccd1
        /\ coolant2' = vals.coolant2
        /\ gpu_w' = nvml_vals.watts
        /\ gpu_mem_used' = nvml_vals.mem_used
        /\ gpu_mem_max' = nvml_vals.mem_total
        /\ tctl_mm' = UpdateMinMax(tctl_mm, vals.tctl)
        /\ tccd1_mm' = UpdateMinMax(tccd1_mm, vals.tccd1)
        /\ coolant1_mm' = UpdateMinMax(coolant1_mm, vals.coolant1)
        /\ coolant2_mm' = UpdateMinMax(coolant2_mm, vals.coolant2)
        /\ gpu_temp_mm' = UpdateMinMax(gpu_temp_mm, nvml_vals.temp)
        /\ seen' = [tctl     |-> seen.tctl \cup {vals.tctl},
                    tccd1    |-> seen.tccd1 \cup {vals.tccd1},
                    coolant1 |-> seen.coolant1 \cup {vals.coolant1},
                    coolant2 |-> seen.coolant2 \cup {vals.coolant2},
                    gpu_temp |-> seen.gpu_temp \cup {nvml_vals.temp}]

on_tick(sensors, nvml) ==
    LET vals      == get_lmsensors_vals(sensors)
        nvml_vals == get_nvml_values(nvml)
        win       == AdvanceWindow(window)
        w         == win[2]
    IN  /\ window' = win
        /\ tctl' = Advance(tctl, w, vals.tctl)
        /\ coolant1' = Advance(coolant1, w, vals.coolant1)
        /\ gpu_temp' = Advance(gpu_temp, w, nvml_vals.temp)
        /\ tccd1' = vals.tccd1
        /\ coolant2' = vals.coolant2
        /\ gpu_w' = nvml_vals.watts
        /\ gpu_mem_used' = nvml_vals.mem_used
        /\ gpu_mem_max' = nvml_vals.mem_total
        /\ tctl_mm' = UpdateMinMax(tctl_mm, vals.tctl)
        /\ tccd1_mm' = UpdateMinMax(tccd1_mm, vals.tccd1)
        /\ coolant1_mm' = UpdateMinMax(coolant1_mm, vals.coolant1)
        /\ coolant2_mm' = UpdateMinMax(coolant2_mm, vals.coolant2)
        /\ gpu_temp_mm' = UpdateMinMax(gpu_temp_mm, nvml_vals.temp)
        /\ seen' = [tctl     |-> seen.tctl \cup {vals.tctl},
                    tccd1    |-> seen.tccd1 \cup {vals.tccd1},
                    coolant1 |-> seen.coolant1 \cup {vals.coolant1},
                    coolant2 |-> seen.coolant2 \cup {vals.coolant2},
                    gpu_temp |-> seen.gpu_temp \cup {nvml_vals.temp}]

----------------------------------------------------------------------------
(* App::render_temps_chart: the y-axis bounds *)

\* Iterator::zip stops at the shortest of the three series.
ZipLen(t, c, g) == fmin(fmin(Len(t), Len(c)), Len(g))

\* .map(|v| v.0 .0 .1.min(v.0 .1 .1).min(v.1 .1))
CrossMin(t, c, g) ==
    [i \in 1..ZipLen(t, c, g) |-> fmin(fmin(t[i][2], c[i][2]), g[i][2])]

\* .map(|v| v.0 .0 .1.max(v.0 .1 .1).max(v.1 .1))
CrossMax(t, c, g) ==
    [i \in 1..ZipLen(t, c, g) |-> fmax(fmax(t[i][2], c[i][2]), g[i][2])]

\* Variant of y_min_filter: the 0.0 sentinel passes the filter.
y_min_filter_KeepsZero(v) == v >= 0

\* .filter(|v| *v >= 0.01), in the y_min chain
y_min_filter(v) == v >= FILTER_MIN

\* Variant of y_max_filter: the 0.0 sentinel passes the filter.
y_max_filter_KeepsZero(v) == v >= 0

\* .filter(|v| *v >= 0.01), in the y_max chain
y_max_filter(v) == v >= FILTER_MIN

\* Variant of y_min_compare: the comparison is reversed.
y_min_compare_Reversed(a, b) == IF a >= b THEN "Less" ELSE "Greater"

\* The closure given to min_by.
y_min_compare(a, b) == IF a <= b THEN "Less" ELSE "Greater"

\* The closure given to max_by.
y_max_compare(a, b) == IF a <= b THEN "Less" ELSE "Greater"

\* Iterator::min_by: reduce with |x, y| match compare(&x, &y) { Greater => y, _ => x };
\* <<>> is None, <<v>> is Some(v).
RECURSIVE min_by_fold(_, _)
min_by_fold(x, rest) ==
    IF rest = <<>> THEN x
    ELSE min_by_fold(IF y_min_compare(x, Head(rest)) = "Greater"
                     THEN Head(rest) ELSE x, Tail(rest))

min_by(s) == IF s = <<>> THEN <<>> ELSE <<min_by_fold(Head(s), Tail(s))>>

\* Iterator::max_by: reduce with |x, y| match compare(&x, &y) { Greater => x, _ => y }.
RECURSIVE max_by_fold(_, _)
max_by_fold(x, rest) ==
    IF rest = <<>> THEN x
    ELSE max_by_fold(IF y_max_compare(x, Head(rest)) = "Greater"
                     THEN x ELSE Head(rest), Tail(rest))

max_by(s) == IF s = <<>> THEN <<>> ELSE <<max_by_fold(Head(s), Tail(s))>>

\* .map(|v| (v - BOUNDS_PADDING).max(BOUNDS_MIN))
PadLow(v) == fmax(v - BOUNDS_PADDING, BOUNDS_MIN)

\* .map(|v| (v + BOUNDS_PADDING).min(BOUNDS_MAX))
PadHigh(v) == fmin(v + BOUNDS_PADDING, BOUNDS_MAX)

y_min(t, c, g) ==
    LET m == min_by(SelectSeq(CrossMin(t, c, g), y_min_filter))
    IN  IF m = <<>> THEN BOUNDS_MIN ELSE PadLow(m[1])

y_max(t, c, g) ==
    LET m == max_by(SelectSeq(CrossMax(t, c, g), y_max_filter))
    IN  IF m = <<>> THEN BOUNDS_MAX ELSE PadHigh(m[1])

----------------------------------------------------------------------------
(* App::draw and App::run *)

\* format!("{:.1}", v): the decimal with one fractional digit nearest to v,
\* given as a number of tenths.  (A value exactly half way between two
\* tenths is rounded by its binary expansion; no reading of the model is.)
fmt1(v) == IF v >= 0 THEN (v + 50) \div 100 ELSE -((50 - v) \div 100)

\* One row of the table: Curr, Min, Max.
Row(curr, mm) == <<fmt1(curr), fmt1(mm[1]), fmt1(mm[2])>>

\* The table has no row yet.
NoTable ==
    [tctl |-> <<>>, tccd1 |-> <<>>, coolant1 |-> <<>>, coolant2 |-> <<>>,
     gpu_temp |-> <<>>]

render_temps_table ==
    [tctl     |-> Row(Last(tctl)[2], tctl_mm),
     tccd1    |-> Row(tccd1, tccd1_mm),
     coolant1 |-> Row(Last(coolant1)[2], coolant1_mm),
     coolant2 |-> Row(coolant2, coolant2_mm),
     gpu_temp |-> Row(Last(gpu_temp)[2], gpu_temp_mm)]

\* One successful terminal.draw(|frame| self.draw(frame)): the chart's y
\* bounds (.bounds([y_min, y_max])), its x bounds (.bounds(self.window)), the
\* table and the two coolant gauges (c1 and c2 are both read from
\* self.coolant1.last()).
draw ==
    /\ pc = "draw"
    /\ y_bounds' = <<y_min(tctl, coolant1, gpu_temp), y_max(tctl, coolant1, gpu_temp)>>
    /\ gauges' = <<Last(coolant1)[2], Last(coolant1)[2]>>
    /\ x_bounds' = window
    /\ table' = render_temps_table
    /\ drawn' = TRUE
    /\ pc' = "poll"
    /\ UNCHANGED <<storeVars, elapsed, result>>

\* terminal.draw(..)? fails: run returns the error.
draw_err ==
    /\ pc = "draw"
    /\ pc' = "done"
    /\ result' = "Err"
    /\ UNCHANGED <<storeVars, frameVars, elapsed>>

\* tick_rate.saturating_sub(last_tick.elapsed())
Timeout == IF elapsed >= INTERVAL THEN 0 ELSE INTERVAL - elapsed

\* The moments, from now, at which an event can end event::poll(timeout)
\* early: at once, or half an interval later.
EventDelays == {d \in {0, INTERVAL \div 2} : d <= Timeout}

\* event::poll(timeout) returns Ok(false): no event within the timeout.
poll_timeout ==
    /\ pc = "poll"
    /\ elapsed' = elapsed + Timeout
    /\ pc' = "check"
    /\ UNCHANGED <<storeVars, frameVars, result>>

\* Variant of poll_quit: the key is noted and the loop goes on to the tick check.
poll_quit_LoopsOn ==
    /\ pc = "poll"
    /\ \E d \in EventDelays : elapsed' = elapsed + d
    /\ pc' = "check"
    /\ result' = "Ok"
    /\ UNCHANGED <<storeVars, frameVars>>

\* event::poll(timeout) returns Ok(true) after d ms and event::read() gives
\* the key 'q': run returns Ok(()).
poll_quit ==
    /\ pc = "poll"
    /\ \E d \in EventDelays : elapsed' = elapsed + d
    /\ pc' = "done"
    /\ result' = "Ok"
    /\ UNCHANGED <<storeVars, frameVars>>

\* event::poll(timeout) returns Ok(true) after d ms and event::read() gives
\* another key or an event that is no key.
poll_other ==
    /\ pc = "poll"
    /\ \E d \in EventDelays : elapsed' = elapsed + d
    /\ pc' = "check"
    /\ UNCHANGED <<storeVars, frameVars, result>>

\* event::poll(timeout)? or event::read()? fails: run returns the error.
poll_err ==
    /\ pc = "poll"
    /\ pc' = "done"
    /\ result' = "Err"
    /\ UNCHANGED <<storeVars, frameVars, elapsed>>

\* Variant of tick: on_tick runs on every turn of the loop.
tick_EveryTurn ==
    /\ pc = "check"
    /\ window[1] < MaxTicks
    /\ \E sensors \in LmStates, nvml \in NvmlStates : on_tick(sensors, nvml)
    /\ elapsed' = 0
    /\ pc' = "draw"
    /\ UNCHANGED <<frameVars, result>>

\* if last_tick.elapsed() >= tick_rate { self.on_tick(); last_tick = Instant::now(); }
tick ==
    /\ pc = "check"
    /\ elapsed >= INTERVAL
    /\ window[1] < MaxTicks
    /\ \E sensors \in LmStates, nvml \in NvmlStates : on_tick(sensors, nvml)
    /\ elapsed' = 0
    /\ pc' = "draw"
    /\ UNCHANGED <<frameVars, result>>

\* The tick is not due yet: the loop goes round.
no_tick ==
    /\ pc = "check"
    /\ elapsed < INTERVAL
    /\ pc' = "draw"
    /\ UNCHANGED <<storeVars, frameVars, elapsed, result>>

Init ==
    /\ \E sensors \in LmStates, nvml \in NvmlStates : App_new(sensors, nvml)
    /\ pc = "draw"
    /\ elapsed = 0
    /\ result = "running"
    /\ drawn = FALSE
    /\ y_bounds = <<0, 0>>
    /\ gauges = <<0, 0>>
    /\ x_bounds = <<0, 0>>
    /\ table = NoTable

Next ==
    \/ draw
    \/ draw_err
    \/ poll_timeout
    \/ poll_quit
    \/ poll_other
    \/ poll_err
    \/ tick
    \/ no_tick

Spec == Init /\ [][Next]_vars

----------------------------------------------------------------------------
(* Start-up as a whole: App::new first initializes the two sensor           *)
(* libraries, and either initialization can fail (no usable sensors          *)
(* configuration, no NVIDIA driver or library on the host).                  *)

\* Initializer::default().initialize() and Nvml::init(): Ok or Err.
InitOutcomes == {"Ok", "Err"}

\* .expect("Failed to init lm-sensors") / .expect("Failed to initialize
\* NVML") panicked: there is no App and run is never called.
Panicked ==
    /\ tctl = <<>> /\ coolant1 = <<>> /\ gpu_temp = <<>>
    /\ tctl_mm = <<0, 0>> /\ tccd1_mm = <<0, 0>> /\ coolant1_mm = <<0, 0>>
    /\ coolant2_mm = <<0, 0>> /\ gpu_temp_mm = <<0, 0>>
    /\ tccd1 = 0 /\ coolant2 = 0
    /\ gpu_w = 0 /\ gpu_mem_used = 0 /\ gpu_mem_max = 0
    /\ window = <<0, 0>>
    /\ seen = [tctl |-> {}, tccd1 |-> {}, coolant1 |-> {}, coolant2 |-> {},
               gpu_temp |-> {}]
    /\ pc = "done"
    /\ elapsed = 0
    /\ result = "panic"
    /\ drawn = FALSE
    /\ y_bounds = <<0, 0>>
    /\ gauges = <<0, 0>>
    /\ x_bounds = <<0, 0>>
    /\ table = NoTable

InitStartup ==
    \E lm_init \in InitOutcomes, nvml_init \in InitOutcomes :
        IF lm_init = "Ok" /\ nvml_init = "Ok" THEN Init ELSE Panicked

SpecStartup == InitStartup /\ [][Next]_vars

----------------------------------------------------------------------------
(* The store once every placeholder has left the window, over a wider range *)
(* of readings: the state WINDOW_SIZE ticks after App::new, when the loop   *)
(* is about to draw.  The readings of the WINDOW_SIZE ticks are tv, cv, gv  *)
(* (tctl, coolant1, GPU); the reading App::new took equals the first        *)
(* tick's; tccd1, coolant2 and the GPU power and memory were unavailable    *)
(* throughout.  The last frame is the one drawn before the latest tick.     *)

TctlReadings == {0, 5, 10000, 95000}

Coolant1Readings == {0, 30000, 95000}

GpuReadings == {0, 95000}

\* The series WINDOW_SIZE ticks after App::new: ticks WINDOW_SIZE + 1 ..
\* 2 * WINDOW_SIZE, pushed by on_tick at w = window[1].
SeriesAfter(vals) == [i \in 1..WINDOW_SIZE |-> <<WINDOW_SIZE + i, vals[i]>>]

\* The series one tick earlier: the sample of App::new, then WINDOW_SIZE - 1
\* pushed ones.
SeriesBefore(vals) ==
    <<<<WINDOW_SIZE - 1, vals[1]>>>> \o
    [i \in 1..(WINDOW_SIZE - 1) |-> <<WINDOW_SIZE + i, vals[i]>>]

Values(vals) == {vals[i] : i \in 1..Len(vals)}

SetMin(S) == CHOOSE x \in S : \A y \in S : x <= y

SetMax(S) == CHOOSE x \in S : \A y \in S : x >= y

\* The running (min, max) one tick earlier: over the reading of App::new and
\* those of the first WINDOW_SIZE - 1 ticks.
MinMaxBefore(vals) ==
    <<SetMin({SeriesBefore(vals)[i][2] : i \in 1..WINDOW_SIZE}),
      SetMax({SeriesBefore(vals)[i][2] : i \in 1..WINDOW_SIZE})>>

InitBounds ==
    \E tv \in [1..WINDOW_SIZE -> TctlReadings],
       cv \in [1..WINDOW_SIZE -> Coolant1Readings],
       gv \in [1..WINDOW_SIZE -> GpuReadings] :
        /\ tctl = SeriesAfter(tv)
        /\ coolant1 = SeriesAfter(cv)
        /\ gpu_temp = SeriesAfter(gv)
        /\ tctl_mm = <<SetMin(Values(tv)), SetMax(Values(tv))>>
        /\ coolant1_mm = <<SetMin(Values(cv)), SetMax(Values(cv))>>
        /\ gpu_temp_mm = <<SetMin(Values(gv)), SetMax(Values(gv))>>
        /\ tccd1 = 0
        /\ tccd1_mm = <<0, 0>>
        /\ coolant2 = 0
        /\ coolant2_mm = <<0, 0>>
        /\ gpu_w = 0
        /\ gpu_mem_used = 0
        /\ gpu_mem_max = 0
        /\ window = <<WINDOW_SIZE, 2 * WINDOW_SIZE>>
        /\ seen = [tctl     |-> Values(tv),
                   tccd1    |-> {0},
                   coolant1 |-> Values(cv),
                   coolant2 |-> {0},
                   gpu_temp |-> Values(gv)]
        /\ pc = "draw"
        /\ elapsed = 0
        /\ result = "running"
        /\ drawn = TRUE
        /\ y_bounds = <<y_min(SeriesBefore(tv), SeriesBefore(cv), SeriesBefore(gv)),
                        y_max(SeriesBefore(tv), SeriesBefore(cv), SeriesBefore(gv))>>
        /\ gauges = <<Last(SeriesBefore(cv))[2], Last(SeriesBefore(cv))[2]>>
        /\ x_bounds = <<WINDOW_SIZE - 1, 2 * WINDOW_SIZE - 1>>
        /\ table =
             [tctl     |-> Row(Last(SeriesBefore(tv))[2], MinMaxBefore(tv)),
              tccd1    |-> Row(0, <<0, 0>>),
              coolant1 |-> Row(Last(SeriesBefore(cv))[2], MinMaxBefore(cv)),
              coolant2 |-> Row(0, <<0, 0>>),
              gpu_temp |-> Row(Last(SeriesBefore(gv))[2], MinMaxBefore(gv))]

NextBounds == draw

SpecBounds == InitBounds /\ [][NextBounds]_vars

----------------------------------------------------------------------------
(* Vocabulary of the properties *)

\* The three series shown on the chart.
Charted == <<tctl, coolant1, gpu_temp>>

\* The last frame shows the store as it is now (no tick since it was drawn).
FrameCurrent == drawn /\ x_bounds = window

Positions == 1..WINDOW_SIZE

\* The values the three charted series hold at position p.
ValuesAt(p) == {tctl[p][2], coolant1[p][2], gpu_temp[p][2]}

\* The three series without position p.
Without(series, p) == SubSeq(series, 1, p - 1) \o SubSeq(series, p + 1, Len(series))

\* The tick indices of the series are consecutive integers.
Consecutive(series) ==
    \A i \in 1..(Len(series) - 1) : series[i + 1][1] = series[i][1] + 1

\* The five tracked metrics: running (min, max) and latest reading.
Metrics == {"tctl", "tccd1", "coolant1", "coolant2", "gpu_temp"}

RunningMinMax ==
    [tctl |-> tctl_mm, tccd1 |-> tccd1_mm, coolant1 |-> coolant1_mm,
     coolant2 |-> coolant2_mm, gpu_temp |-> gpu_temp_mm]

Latest ==
    [tctl |-> Last(tctl)[2], tccd1 |-> tccd1, coolant1 |-> Last(coolant1)[2],
     coolant2 |-> coolant2, gpu_temp |-> Last(gpu_temp)[2]]

----------------------------------------------------------------------------
(* C1 - C5: the window and the series *)

\* C1 (as claimed): in every state, each charted series' newest sample has
\* tick index window[1] (window.end) and its oldest sample has tick index
\* window.end - WINDOW_SIZE + 1.
C1_SynchronizedDomain ==
    \A k \in 1..3 :
        /\ Last(Charted[k])[1] = window[2]
        /\ Charted[k][1][1] = window[2] - WINDOW_SIZE + 1

\* C2 (as claimed): every tick evicts each series' oldest sample and appends
\* a sample whose tick index is the previous newest tick index + 1, so the
\* tick indices of a series stay consecutive.
C2_AdvanceAppendsNextIndex ==
    [][window' # window =>
        /\ tctl' = Append(Tail(tctl), <<Last(tctl)[1] + 1, Last(tctl')[2]>>)
        /\ coolant1' =
             Append(Tail(coolant1), <<Last(coolant1)[1] + 1, Last(coolant1')[2]>>)
        /\ gpu_temp' =
             Append(Tail(gpu_temp), <<Last(gpu_temp)[1] + 1, Last(gpu_temp')[2]>>)
        /\ Consecutive(tctl') /\ Consecutive(coolant1') /\ Consecutive(gpu_temp')
      ]_vars

\* C3: after App::new and after any number of ticks, tctl, coolant1 and
\* gpu_temp each hold exactly WINDOW_SIZE samples.
C3_FixedLength ==
    /\ Len(tctl) = WINDOW_SIZE
    /\ Len(coolant1) = WINDOW_SIZE
    /\ Len(gpu_temp) = WINDOW_SIZE

\* Ticks have evicted and appended, and the series are still full.
C3_Witness ==
    /\ window[1] >= 2
    /\ Len(tctl) = WINDOW_SIZE /\ Len(coolant1) = WINDOW_SIZE
    /\ Len(gpu_temp) = WINDOW_SIZE

\* C4 (as claimed): in every state window.end - window.start = WINDOW_SIZE - 1.
C4_WidthIsCapacityMinusOne == window[2] - window[1] = WINDOW_SIZE - 1

\* C5: a tick adds exactly 1 to both window bounds, no other step changes
\* them, and the width window.end - window.start is WINDOW_SIZE before and
\* after every step.
C5_WindowAdvancesByOne ==
    [][/\ tctl' # tctl => window' = <<window[1] + 1, window[2] + 1>>
       /\ tctl' = tctl => window' = window
       /\ window[2] - window[1] = WINDOW_SIZE
       /\ window'[2] - window'[1] = WINDOW_SIZE
      ]_vars

\* Several ticks have moved the window, whose width is still WINDOW_SIZE.
C5_Witness == window[1] >= 2 /\ window[2] - window[1] = WINDOW_SIZE

----------------------------------------------------------------------------
(* C6 - C9: the y-axis bounds of the chart *)

\* The cross-series minima / maxima that pass the 0.01 filter.
RealMins == {m \in {SetMin(ValuesAt(p)) : p \in Positions} : m >= FILTER_MIN}

RealMaxes == {m \in {SetMax(ValuesAt(p)) : p \in Positions} : m >= FILTER_MIN}

\* C6 (as claimed): whatever the three charted series hold, y_min and y_max
\* both lie in [BOUNDS_MIN, BOUNDS_MAX].
C6_BoundsClamped ==
    FrameCurrent =>
        /\ BOUNDS_MIN <= y_bounds[1] /\ y_bounds[1] <= BOUNDS_MAX
        /\ BOUNDS_MIN <= y_bounds[2] /\ y_bounds[2] <= BOUNDS_MAX

\* C7: when a cross-series minimum passes the filter, y_min is
\* max(BOUNDS_MIN, m - BOUNDS_PADDING) for the smallest such minimum m; when a
\* cross-series maximum passes the filter, y_max is
\* min(BOUNDS_MAX, M + BOUNDS_PADDING) for the largest such maximum M.
C7_BoundsFormula ==
    FrameCurrent =>
        /\ RealMins # {} =>
             y_bounds[1] = fmax(BOUNDS_MIN, SetMin(RealMins) - BOUNDS_PADDING)
        /\ RealMaxes # {} =>
             y_bounds[2] = fmin(BOUNDS_MAX, SetMax(RealMaxes) + BOUNDS_PADDING)

\* A peak of 95.0 next to a series at 30.0 gives y_max = 90.0, with equal
\* values at two positions and a y_min that is not clamped.
C7_Witness ==
    /\ FrameCurrent
    /\ \E p \in Positions : tctl[p][2] = 95000 /\ coolant1[p][2] = 30000
    /\ RealMins # {}
    /\ \E p, q \in Positions : p # q /\ SetMin(ValuesAt(p)) = SetMin(ValuesAt(q))
                                /\ SetMin(ValuesAt(p)) = SetMin(RealMins)
    /\ y_bounds[2] = BOUNDS_MAX
    /\ y_bounds[1] > BOUNDS_MIN

\* C8 (as claimed): a position whose cross-series minimum or maximum is
\* below 0.01 contributes to neither bound: both bounds are what they would
\* be without that position.
C8_PositionExcludedFromBoth ==
    FrameCurrent =>
        \A p \in Positions :
            (SetMin(ValuesAt(p)) < FILTER_MIN \/ SetMax(ValuesAt(p)) < FILTER_MIN) =>
                /\ y_bounds[1] = y_min(Without(tctl, p), Without(coolant1, p),
                                       Without(gpu_temp, p))
                /\ y_bounds[2] = y_max(Without(tctl, p), Without(coolant1, p),
                                       Without(gpu_temp, p))

\* C8 (amended): a position whose cross-series minimum is below 0.01
\* contributes nothing to y_min, and a position whose cross-series maximum is
\* below 0.01 contributes nothing to y_max; a position whose cross-series
\* maximum is at least 0.01 counts toward y_max even when one of the series
\* reads 0.0 there.
C8_PositionExcludedPerBound ==
    FrameCurrent =>
        \A p \in Positions :
            /\ SetMin(ValuesAt(p)) < FILTER_MIN =>
                 y_bounds[1] = y_min(Without(tctl, p), Without(coolant1, p),
                                     Without(gpu_temp, p))
            /\ SetMax(ValuesAt(p)) < FILTER_MIN =>
                 y_bounds[2] = y_max(Without(tctl, p), Without(coolant1, p),
                                     Without(gpu_temp, p))
            /\ SetMax(ValuesAt(p)) >= FILTER_MIN =>
                 y_bounds[2] >= fmin(BOUNDS_MAX, SetMax(ValuesAt(p)) + BOUNDS_PADDING)

\* A position where one series reads 0.0 and another a real temperature
\* decides y_max, next to a position that is all sentinel.
C8_Witness ==
    /\ FrameCurrent
    /\ \E p \in Positions :
        /\ SetMin(ValuesAt(p)) = 0
        /\ SetMax(ValuesAt(p)) >= FILTER_MIN
        /\ y_bounds[2] = SetMax(ValuesAt(p)) + BOUNDS_PADDING
        /\ y_bounds[2] # y_max(Without(tctl, p), Without(coolant1, p),
                               Without(gpu_temp, p))
    /\ \E q \in Positions : SetMax(ValuesAt(q)) < FILTER_MIN

\* Every charted series is below 0.01 at every position.
AllSentinel == \A p \in Positions : \A v \in ValuesAt(p) : v < FILTER_MIN

\* C9: if every charted series holds a value below 0.01 at every position,
\* the bounds are exactly [BOUNDS_MIN, BOUNDS_MAX].
C9_SentinelFallback ==
    (FrameCurrent /\ AllSentinel) => y_bounds = <<BOUNDS_MIN, BOUNDS_MAX>>

\* A window of 0.0 and sub-threshold readings only has been drawn.
C9_Witness ==
    /\ FrameCurrent
    /\ AllSentinel
    /\ \E p \in Positions : ValuesAt(p) = {0}
    /\ \E p \in Positions : SetMax(ValuesAt(p)) > 0
    /\ y_bounds = <<BOUNDS_MIN, BOUNDS_MAX>>

----------------------------------------------------------------------------
(* C10: the running extrema *)

\* C10: for each of the five metrics, running_min <= every reading given to
\* the metric since App::new <= running_max; in particular the latest
\* reading lies between them.
C10_AllTimeExtrema ==
    \A m \in Metrics :
        /\ \A v \in seen[m] : RunningMinMax[m][1] <= v /\ v <= RunningMinMax[m][2]
        /\ Latest[m] \in seen[m]
        /\ RunningMinMax[m][1] <= Latest[m] /\ Latest[m] <= RunningMinMax[m][2]

\* After ticks, tctl has read three different values, the latest strictly
\* between the extrema, and coolant2 has dipped to the sentinel.
C10_Witness ==
    /\ window[1] >= 2
    /\ seen.tctl = {0, 40000, 95000}
    /\ Latest.tctl = 40000
    /\ tctl_mm = <<0, 95000>>
    /\ seen.coolant2 = {0, 31000}
    /\ \A m \in Metrics : RunningMinMax[m][1] < RunningMinMax[m][2]

----------------------------------------------------------------------------
(* C11 - C12: the running extrema and the sentinel *)

\* The values a series holds in its window.
WindowValues(series) == {series[i][2] : i \in 1..Len(series)}

\* C11: running_min and running_max are the minimum and the maximum of the
\* readings given to the metric since App::new (placeholders are no
\* readings), whatever the window still holds, and across steps running_min
\* never increases and running_max never decreases.
C11_ExactAllTimeExtrema ==
    /\ [](\A m \in Metrics :
            RunningMinMax[m] = <<SetMin(seen[m]), SetMax(seen[m])>>)
    /\ [][\A m \in Metrics :
            /\ RunningMinMax[m][1]' <= RunningMinMax[m][1]
            /\ RunningMinMax[m][2]' >= RunningMinMax[m][2]]_vars

\* The extrema of tctl, 0.0 and 95.0, have both left the window and are
\* still the running minimum and maximum.
C11_Witness ==
    /\ window[1] >= WINDOW_SIZE
    /\ tctl_mm = <<0, 95000>>
    /\ 95000 \notin WindowValues(tctl)
    /\ 0 \notin WindowValues(tctl)

\* A tick has read 0.0 for tctl and coolant2: the table shows 0.0 as their
\* current and minimum values, and the chart's low bound is a real one.
C12_Witness ==
    /\ FrameCurrent
    /\ window[1] >= 1
    /\ Latest.tctl = 0 /\ tctl_mm[1] = 0 /\ tctl_mm[2] > 0
    /\ Latest.coolant2 = 0 /\ coolant2_mm = <<0, 31000>>
    /\ table.tctl[1] = 0 /\ table.tctl[2] = 0
    /\ y_bounds[1] > BOUNDS_MIN

\* C12: a 0.0 reading counts for the table's extrema (after a tick in which
\* a metric reads 0.0 its running_min is <= 0.0, it is the minimum of all
\* readings with nothing filtered, and the table shows it and the 0.0
\* current value), while the chart's low bound stays >= BOUNDS_MIN.
C12_SentinelAsymmetry ==
    FrameCurrent =>
        /\ \A m \in Metrics :
             /\ table[m] = <<fmt1(Latest[m]), fmt1(SetMin(seen[m])),
                             fmt1(SetMax(seen[m]))>>
             /\ Latest[m] = 0 =>
                  /\ RunningMinMax[m][1] <= 0
                  /\ table[m][1] = 0
                  /\ table[m][2] = fmt1(RunningMinMax[m][1])
        /\ y_bounds[1] >= BOUNDS_MIN

----------------------------------------------------------------------------
(* C13 - C14: lockstep and initialization *)

\* C13: in every state a draw can observe (in fact in every state), the
\* three charted series have the same length and, position by position, the
\* same tick index.
C13_Lockstep ==
    /\ Len(tctl) = Len(coolant1) /\ Len(coolant1) = Len(gpu_temp)
    /\ \A i \in 1..Len(tctl) :
         tctl[i][1] = coolant1[i][1] /\ coolant1[i][1] = gpu_temp[i][1]

\* A draw is about to observe the store after several ticks that gave the
\* three series different values.
C13_Witness ==
    /\ pc = "draw"
    /\ window[1] >= 2
    /\ Latest.tctl # Latest.coolant1 /\ Latest.coolant1 # Latest.gpu_temp
    /\ \A i \in 1..WINDOW_SIZE :
         tctl[i][1] = coolant1[i][1] /\ coolant1[i][1] = gpu_temp[i][1]

\* No tick has happened since App::new.
NoTickYet == window[1] = 0

\* WINDOW_SIZE - 1 placeholders (i, 0.0), i = 0 .. WINDOW_SIZE - 2, and then
\* one sample at tick index WINDOW_SIZE - 1.
FreshSeries(series) ==
    /\ Len(series) = WINDOW_SIZE
    /\ \A i \in 1..(WINDOW_SIZE - 1) : series[i] = <<i - 1, 0>>
    /\ series[WINDOW_SIZE][1] = WINDOW_SIZE - 1

\* C14: right after App::new each charted series is WINDOW_SIZE - 1
\* placeholders of value 0.0 at tick indices 0 .. WINDOW_SIZE - 2 followed by
\* one sample at tick index WINDOW_SIZE - 1 holding the first reading, and
\* every metric's running_min and running_max both equal its first reading.
C14_Initialization ==
    NoTickYet =>
        /\ FreshSeries(tctl) /\ FreshSeries(coolant1) /\ FreshSeries(gpu_temp)
        /\ \A m \in Metrics :
             /\ seen[m] = {Latest[m]}
             /\ RunningMinMax[m] = <<Latest[m], Latest[m]>>

\* App::new has read real values for all five metrics and a first frame of
\* it has been drawn.
C14_Witness ==
    /\ NoTickYet
    /\ FrameCurrent
    /\ tctl[1] = <<0, 0>> /\ Last(tctl) = <<WINDOW_SIZE - 1, 40000>>
    /\ \A m \in Metrics : Latest[m] > 0 /\ RunningMinMax[m] = <<Latest[m], Latest[m]>>

----------------------------------------------------------------------------
(* C15 - C16: the loop of App::run *)

\* C15 (as claimed): run returns Ok only once the iteration in which 'q' was
\* read has completed, so no tick is due and unperformed when it returns.
C15_QuitCompletesIteration == result = "Ok" => elapsed < INTERVAL

\* C15 (amended): when 'q' is read, run returns Ok at once, from the input
\* wait: the rest of the iteration is not executed (a tick that is due is not
\* performed), the store is left as the last complete tick left it, and
\* nothing happens after run has returned.
C15_QuitReturnsAtOnce ==
    [][/\ pc # "done"
       /\ result' = "Ok" =>
            /\ pc = "poll" /\ pc' = "done"
            /\ storeVars' = storeVars
            /\ C13_Lockstep'
      ]_vars

\* run has returned Ok after some ticks, with a tick due that it did not
\* perform.
C15_Witness ==
    /\ result = "Ok" /\ pc = "done"
    /\ elapsed >= INTERVAL
    /\ window[1] >= 1 /\ window[1] < MaxTicks

\* C16: the input wait lasts at most the time left until the next tick is
\* due and any event ends it early; on_tick runs only when at least INTERVAL
\* has elapsed since the previous tick (or the start of the loop); a step of
\* the input wait, a key that is not 'q' included, never changes the store.
C16_TickPacing ==
    [][/\ window' # window =>
            /\ pc = "check" /\ elapsed >= INTERVAL
            /\ elapsed' = 0
       /\ pc = "poll" =>
            /\ storeVars' = storeVars
            /\ elapsed <= elapsed' /\ elapsed' <= fmax(elapsed, INTERVAL)
       /\ pc # "poll" /\ window' = window => elapsed' = elapsed
      ]_vars

\* After a tick, a key that is not 'q' has ended the wait early: the tick
\* check finds that no tick is due.
C16_Witness ==
    /\ pc = "check"
    /\ 0 < elapsed /\ elapsed < INTERVAL
    /\ window[1] >= 1

----------------------------------------------------------------------------
(* C17 - C20 *)

\* C17 (as claimed): an unavailable sensor is never a failure: neither
\* start-up nor a tick ends in a failure because a sensor cannot be read.
C17_SensorsNeverFail == result # "panic"

\* C18 (as claimed): the y-axis bounds of a frame are well ordered,
\* y_min <= y_max, whatever the window holds.
C18_BoundsOrdered == FrameCurrent => y_bounds[1] <= y_bounds[2]

\* C19 (as claimed): on every draw the Coolant 2 gauge shows the latest
\* coolant2 reading, the value the table shows as Coolant 2 'Curr', and the
\* Coolant 1 gauge shows the newest coolant1 sample.
C19_GaugesShowTheirMetric ==
    FrameCurrent =>
        /\ gauges[1] = Last(coolant1)[2]
        /\ gauges[2] = coolant2
        /\ fmt1(gauges[2]) = table.coolant2[1]

\* C20: every sample retained in a charted series has its tick index inside
\* window, window[0] <= tick index <= window[1], and a frame that has just
\* been drawn has an x-axis range that holds every sample it plots.
C20_SamplesInsideWindow ==
    \A k \in 1..3 : \A i \in 1..Len(Charted[k]) :
        /\ window[1] <= Charted[k][i][1] /\ Charted[k][i][1] <= window[2]
        /\ pc = "poll" =>
             x_bounds[1] <= Charted[k][i][1] /\ Charted[k][i][1] <= x_bounds[2]

\* A frame of a window that holds only samples pushed by on_tick, the
\* oldest one tick inside the range.
C20_Witness ==
    /\ FrameCurrent
    /\ window[1] >= WINDOW_SIZE
    /\ tctl[1][1] = window[1] + 1
    /\ Last(gpu_temp)[1] = window[2]

====
